---- MODULE Spec2Model ----
(***************************************************************************)
(* State-machine model of the level100-studios React component library.   *)
(*                                                                         *)
(* Each widget is an isolated state machine (local useState fields, the    *)
(* listeners and timers it registers, the callbacks it invokes).  A        *)
(* handler is one action: React commits the state update of a discrete     *)
(* DOM event and runs the effects that depend on it before the next event  *)
(* is dispatched, so the re-render and the effect cleanup/setup are part   *)
(* of the handler's action.                                                *)
(*                                                                         *)
(* Specifications:                                                         *)
(*   SpecToast / FairSpecToast  one Toast inside a ToastProvider           *)
(*   SpecToasts                 the useToast list and the ToastContainer   *)
(*   SpecSelect                 one Select                                 *)
(*   Spec                       a page with a Menu, an Accordion and       *)
(*                              context consumers (Radio, useTheme, ...)   *)
(*   SpecTheme                  one ThemeProvider and its localStorage     *)
(*   SpecModal                  one Modal, its parent, a second Modal      *)
(*   SpecSlider                 one Slider                                 *)
(*   SpecPagination             one Pagination                             *)
(*   SpecCheckboxGroup          one uncontrolled CheckboxGroup             *)
(*   SpecTabs                   one Tabs with three triggers, its parent   *)
(***************************************************************************)
EXTENDS Integers, Sequences, FiniteSets, TLC

VARIABLES
    \* ---- Toast (src/unnamed/part_006) ----
    now,            \* Date.now(), in ms
    tMounted,       \* the Toast is mounted (its entry is in the provider's list)
    duration,       \* prop duration
    dismissible,    \* prop dismissible
    isExiting,      \* useState(false)
    progress,       \* useState(100)
    isPaused,       \* useState(false)
    interval,       \* the setInterval of the timer effect, or NoInterval
    timeouts,       \* pending setTimeout callbacks of handleDismiss, in creation order
    hovered,        \* the pointer is over the toast element
    clicks,         \* close-button clicks so far
    onDismissCalls, \* log of the onDismiss(id) invocations
    \* ---- useToast / ToastContainer ----
    toasts,         \* useState([]) of useToast
    toastsRef,      \* toastsRef.current
    maxToasts,      \* prop maxToasts of ToastProvider / ToastContainer
    shown,          \* number of showToast calls so far
    lastReturned,   \* what the last showToast call returned
    batch,          \* state updates queued since the provider last rendered
    \* ---- Select (src/components/Select/Select.jsx) ----
    sIsOpen,            \* useState(false): isOpen
    searchTerm,         \* useState('')
    highlightedIndex,   \* useState(-1)
    sValue,             \* prop value, as the parent holds it
    sProps,             \* props searchable, disabled, clearable, onChange, onSearch
    sThrew,             \* a handler of the Select raised an exception
    sLast,              \* the last event: handler, key, and the callbacks it invoked
    \* ---- Menu (src/components/Menu/Menu.jsx) ----
    mIsOpen,        \* useState(false): isOpen
    mListening,     \* the document listeners the two effects have registered
    mLast,          \* the last event on the page that concerns the menu
    \* ---- Accordion (src/unnamed/part_001) ----
    openItems,      \* useState(new Set(defaultOpen))
    aProps,         \* prop type, and how the items are composed
    aLast,          \* the last trigger click and the onChange call it made
    \* ---- context consumers ----
    rLast,          \* the last render of a context consumer and its outcome
    \* ---- ThemeProvider (src/components/ThemeProvider/ThemeProvider.jsx) ----
    theme,          \* useState(...): theme
    storage,        \* localStorage.getItem(storageKey)
    systemDark,     \* matchMedia('(prefers-color-scheme: dark)').matches
    thProps,        \* props defaultTheme, enableSystem, forcedTheme
    resolvedTheme,  \* const resolvedTheme of the last render
    docTheme,       \* data-theme of the document root
    persisted,      \* setTheme or toggleTheme has been called with this storageKey
    thLast,         \* the last event of the provider
    \* ---- Modal (src/unnamed/part_000) ----
    mdProps,        \* props isOpen, closeOnBackdrop, closeOnEscape, showCloseButton, onClose
    mdListening,    \* the document keydown listener of the escape effect is registered
    mdLast,         \* the last event and the number of onClose calls it made
    mdOther,        \* a second Modal instance of the page: unmounted, closed or open
    bodyOverflow,   \* document.body.style.overflow
    \* ---- Slider (src/components/Checkbox/Checkbox.jsx) ----
    internalValue,  \* useState(value ?? min)
    isDragging,     \* useState(false)
    slProps,        \* props min, max, step, disabled
    slLast,         \* the last event and the onChange call it made
    \* ---- Pagination (src/components/Checkbox/Checkbox.jsx) ----
    currentPage,    \* prop currentPage, as the parent holds it
    totalPages,     \* prop totalPages
    pages,          \* getPageNumbers() of the last render
    \* ---- CheckboxGroup (src/components/Checkbox/Checkbox.jsx) ----
    uncontrolledValue,  \* useState(defaultValue)
    cgProps,            \* props disabled, onChange
    cgLast,             \* the last change event and the onChange call it made
    \* ---- Tabs (src/unnamed/part_000) ----
    controlledValue,        \* prop value, as the parent holds it (or undefined)
    tabsUncontrolledValue,  \* useState(defaultValue): uncontrolledValue of Tabs
    tbProps,                \* the disabled triggers; onValueChange is given
    tbFocus,                \* index of the trigger that has the focus, -1 for none
    tbLast                  \* the last event and the onValueChange call it made

toastVars == <<now, tMounted, duration, dismissible, isExiting, progress, isPaused,
               interval, timeouts, hovered, clicks, onDismissCalls>>
listVars == <<toasts, toastsRef, maxToasts, shown, lastReturned, batch>>

selectVars == <<sIsOpen, searchTerm, highlightedIndex, sValue, sProps, sThrew, sLast>>

pageVars == <<mIsOpen, mListening, mLast, openItems, aProps, aLast, rLast>>

themeVars == <<theme, storage, systemDark, thProps, resolvedTheme, docTheme, persisted,
               thLast>>
modalVars == <<mdProps, mdListening, mdLast, mdOther, bodyOverflow>>
sliderVars == <<internalValue, isDragging, slProps, slLast>>
paginationVars == <<currentPage, totalPages, pages>>
checkboxVars == <<uncontrolledValue, cgProps, cgLast>>
tabsVars == <<controlledValue, tabsUncontrolledValue, tbProps, tbFocus, tbLast>>

formVars == <<themeVars, modalVars, sliderVars, paginationVars, checkboxVars, tabsVars>>

vars == <<toastVars, listVars, selectVars, pageVars, formVars>>

Max(a, b) == IF a >= b THEN a ELSE b
Min(a, b) == IF a <= b THEN a ELSE b

(***************************************************************************)
(*                                 Toast                                   *)
(***************************************************************************)

\* The period of the progress interval and the exit-animation delay, in ms.
IntervalMs == 50
ExitDelayMs == 300

\* Bounds of the model.
MaxTicks == 10
MaxClicks == 1

MaxTime == MaxTicks * IntervalMs
\* Durations the toast is configured with: none, a multiple of the period, and not.
Durations == {0, 100, 120}

NoInterval == [active |-> FALSE, startTime |-> 0, endTime |-> 0, nextFire |-> 0]

\* The id prop of the modelled toast.
ToastId == "toast_1"

\* useEffect body of the timer: nothing when duration <= 0 or paused, otherwise
\* an interval ending at Date.now() + duration that first fires one period later.
TimerEffect(dur, paused, t) ==
    IF dur <= 0 \/ paused
    THEN NoInterval
    ELSE [active |-> TRUE, startTime |-> t, endTime |-> t + dur,
          nextFire |-> t + IntervalMs]

\* Mutant of handleDismiss: the exit timeout is never scheduled.
handleDismiss_noTimeout(cause) == timeouts

\* handleDismiss: the timeout it schedules (setIsExiting(true) is in the actions).
\* ranFor records how long the timer effect had been running (0 for a click).
handleDismiss(cause) ==
    Append(timeouts, [at |-> now + ExitDelayMs, cause |-> cause, startedAt |-> now,
                      ranFor |-> IF cause = "timer" THEN now - interval.startTime ELSE 0])

\* No Toast is mounted (the specifications of the other widgets).
InitToastIdle ==
    /\ now = 0
    /\ tMounted = FALSE
    /\ duration = 0
    /\ dismissible = FALSE
    /\ isExiting = FALSE
    /\ progress = 100
    /\ isPaused = FALSE
    /\ interval = NoInterval
    /\ timeouts = <<>>
    /\ hovered = FALSE
    /\ clicks = 0
    /\ onDismissCalls = <<>>

\* (remaining / duration) * 100, kept to whole percents.
NewProgress(remaining, dur) == (remaining * 100) \div dur

InitToast ==
    /\ now = 0
    /\ tMounted = TRUE
    /\ duration \in Durations
    /\ dismissible \in BOOLEAN
    /\ isExiting = FALSE
    /\ progress = 100
    /\ isPaused = FALSE
    /\ interval = TimerEffect(duration, FALSE, 0)
    /\ timeouts = <<>>
    /\ hovered = FALSE
    /\ clicks = 0
    /\ onDismissCalls = <<>>

TimerDue == interval.active /\ interval.nextFire <= now
TimeoutDue == timeouts # <<>> /\ Head(timeouts).at <= now

\* Time passes by one interval period; due timers run first.
Tick ==
    /\ now + IntervalMs <= MaxTime
    /\ ~TimerDue
    /\ ~TimeoutDue
    /\ now' = now + IntervalMs
    /\ UNCHANGED <<tMounted, duration, dismissible, isExiting, progress, isPaused,
                   interval, timeouts, hovered, clicks, onDismissCalls>>
    /\ UNCHANGED <<listVars, selectVars, pageVars, formVars>>

\* The setInterval callback of the timer effect.
IntervalFire ==
    /\ TimerDue
    /\ LET remaining == Max(0, interval.endTime - now)
       IN  /\ progress' = NewProgress(remaining, duration)
           /\ IF now >= interval.endTime
              THEN /\ interval' = NoInterval
                   /\ isExiting' = TRUE
                   /\ timeouts' = handleDismiss("timer")
              ELSE /\ interval' = [interval EXCEPT !.nextFire = @ + IntervalMs]
                   /\ UNCHANGED <<isExiting, timeouts>>
    /\ UNCHANGED <<now, tMounted, duration, dismissible, isPaused, hovered, clicks,
                   onDismissCalls>>
    /\ UNCHANGED <<listVars, selectVars, pageVars, formVars>>

\* onMouseEnter: setIsPaused(true); the timer effect is cleaned up and re-run.
handleMouseEnter ==
    /\ tMounted
    /\ ~hovered
    /\ hovered' = TRUE
    /\ isPaused' = TRUE
    /\ interval' = TimerEffect(duration, TRUE, now)
    /\ UNCHANGED <<now, tMounted, duration, dismissible, isExiting, progress, timeouts,
                   clicks, onDismissCalls>>
    /\ UNCHANGED <<listVars, selectVars, pageVars, formVars>>

\* onMouseLeave: setIsPaused(false); the timer effect is cleaned up and re-run.
handleMouseLeave ==
    /\ tMounted
    /\ hovered
    /\ hovered' = FALSE
    /\ isPaused' = FALSE
    /\ interval' = TimerEffect(duration, FALSE, now)
    /\ UNCHANGED <<now, tMounted, duration, dismissible, isExiting, progress, timeouts,
                   clicks, onDismissCalls>>
    /\ UNCHANGED <<listVars, selectVars, pageVars, formVars>>

\* A click on the close button (rendered when dismissible): handleDismiss.
ClickClose ==
    /\ tMounted
    /\ dismissible
    /\ clicks < MaxClicks
    /\ clicks' = clicks + 1
    /\ isExiting' = TRUE
    /\ timeouts' = handleDismiss("click")
    /\ UNCHANGED <<now, tMounted, duration, dismissible, progress, isPaused, interval,
                   hovered, onDismissCalls>>
    /\ UNCHANGED <<listVars, selectVars, pageVars, formVars>>

\* The setTimeout callback of handleDismiss: onDismiss?.(id).  The provider's
\* onDismiss is dismissToast, which removes the toast: the Toast unmounts and the
\* cleanup of its timer effect clears the interval.
TimeoutFire ==
    /\ TimeoutDue
    /\ onDismissCalls' = Append(onDismissCalls,
            [id |-> ToastId, at |-> now, cause |-> Head(timeouts).cause,
             startedAt |-> Head(timeouts).startedAt, ranFor |-> Head(timeouts).ranFor,
             hovered |-> hovered, mounted |-> tMounted])
    /\ timeouts' = Tail(timeouts)
    /\ tMounted' = FALSE
    /\ interval' = NoInterval
    /\ hovered' = FALSE
    /\ UNCHANGED <<now, duration, dismissible, isExiting, progress, isPaused, clicks>>
    /\ UNCHANGED <<listVars, selectVars, pageVars, formVars>>

NextToast ==
    \/ Tick
    \/ IntervalFire
    \/ handleMouseEnter
    \/ handleMouseLeave
    \/ ClickClose
    \/ TimeoutFire

(***************************************************************************)
(*                      useToast and ToastContainer                        *)
(***************************************************************************)

\* Bounds of the model.
MaxShown == 2
MaxListTime == 1
MaxBatch == 1

\* maxToasts = 5 is the default prop of ToastProvider and ToastContainer.
DefaultMaxToasts == 5
MaxToastsProps == {1, DefaultMaxToasts}

\* generateId: `toast_${Date.now()}_${random}`, one string per (time, random draw).
Randoms == {"a", "b"}
generateId(t, r) ==
    IF t = 0 THEN (IF r = "a" THEN "toast_0_a" ELSE "toast_0_b")
    ELSE IF t = 1 THEN (IF r = "a" THEN "toast_1_a" ELSE "toast_1_b")
    ELSE (IF r = "a" THEN "toast_2_a" ELSE "toast_2_b")
GeneratedIds == {generateId(t, r) : t \in 0..MaxListTime, r \in Randoms}
ToastIds == GeneratedIds \cup {"custom"}

\* { ...a, ...b }
Spread(a, b) ==
    [k \in DOMAIN a \cup DOMAIN b |-> IF k \in DOMAIN b THEN b[k] ELSE a[k]]

defaultConfig == [duration |-> 5000, dismissible |-> TRUE]

\* Toast configurations a caller passes to showToast.
ToastConfigs ==
    { [message |-> "saved"],
      [message |-> "mine", id |-> "custom"] }

\* The toast showToast builds; ord is the number of the showToast call and gen the
\* id generateId returned for it (neither is a field of the code's record: they
\* name the order in which toasts were shown and the id each was created with).
NewToast(cfg, id, t, n) ==
    Spread(Spread(defaultConfig, cfg),
           [id |-> id, createdAt |-> t, ord |-> n, gen |-> id])

\* Array.prototype.slice(0, end) on a sequence (a negative end counts from the back).
Slice0(seq, end) ==
    LET e == IF end < 0 THEN Max(Len(seq) + end, 0) ELSE Min(end, Len(seq))
    IN  SubSeq(seq, 1, e)

\* Mutant of FilterOut: the front toast is removed, whatever its id.
FilterOut_dropFront(seq, id) == IF seq = <<>> THEN <<>> ELSE Tail(seq)

\* prev.filter((toast) => toast.id !== id)
RECURSIVE FilterOut(_, _)
FilterOut(seq, id) ==
    IF seq = <<>> THEN <<>>
    ELSE IF Head(seq).id = id THEN FilterOut(Tail(seq), id)
    ELSE <<Head(seq)>> \o FilterOut(Tail(seq), id)

\* ToastContainer: const visibleToasts = toasts.slice(0, maxToasts), over the toasts
\* prop of the last render.
visibleToasts == Slice0(toastsRef, maxToasts)

\* hasToast: toastsRef.current.some((toast) => toast.id === id)
hasToast(id) == \E i \in DOMAIN toastsRef : toastsRef[i].id = id

InitList ==
    /\ toasts = <<>>
    /\ toastsRef = <<>>
    /\ maxToasts \in MaxToastsProps
    /\ shown = 0
    /\ lastReturned = ""
    /\ batch = 0

\* Mutant of AddToast: the new toast is added at the back.
AddToast_atBack(newToast, prev) == Append(prev, newToast)

\* (prev) => [newToast, ...prev]
AddToast(newToast, prev) == <<newToast>> \o prev

\* showToast(toast): setToasts((prev) => [newToast, ...prev]); return id
showToast(cfg, r) ==
    /\ shown < MaxShown
    /\ batch < MaxBatch
    /\ LET id == generateId(now, r)
       IN  /\ toasts' = AddToast(NewToast(cfg, id, now, shown + 1), toasts)
           /\ lastReturned' = id
    /\ shown' = shown + 1
    /\ batch' = batch + 1
    /\ UNCHANGED <<toastsRef, maxToasts>>
    /\ UNCHANGED <<toastVars, selectVars, pageVars, formVars>>

\* dismissToast(id)
dismissToast(id) ==
    /\ batch < MaxBatch
    /\ toasts' = FilterOut(toasts, id)
    /\ batch' = batch + 1
    /\ UNCHANGED <<toastsRef, maxToasts, shown, lastReturned>>
    /\ UNCHANGED <<toastVars, selectVars, pageVars, formVars>>

\* dismissAll()
dismissAll ==
    /\ batch < MaxBatch
    /\ toasts' = <<>>
    /\ batch' = batch + 1
    /\ UNCHANGED <<toastsRef, maxToasts, shown, lastReturned>>
    /\ UNCHANGED <<toastVars, selectVars, pageVars, formVars>>

\* Updates a caller passes to updateToast: any fields of a toast, id included.
ToastUpdates == { [duration |-> 0, id |-> generateId(0, "a")] }

\* updateToast(id, updates)
updateToast(id, updates) ==
    /\ batch < MaxBatch
    /\ batch' = batch + 1
    /\ toasts' = [i \in DOMAIN toasts |->
                    IF toasts[i].id = id THEN Spread(toasts[i], updates) ELSE toasts[i]]
    /\ UNCHANGED <<toastsRef, maxToasts, shown, lastReturned>>
    /\ UNCHANGED <<toastVars, selectVars, pageVars, formVars>>

\* The provider re-renders: useToast returns the current state, toastsRef.current
\* is assigned it, and ToastContainer receives it as its toasts prop.
RenderProvider ==
    /\ toastsRef' = toasts
    /\ batch' = 0
    /\ UNCHANGED <<toasts, maxToasts, shown, lastReturned>>
    /\ UNCHANGED <<toastVars, selectVars, pageVars, formVars>>

\* Date.now() advances.
ListTick ==
    /\ now < MaxListTime
    /\ now' = now + 1
    /\ UNCHANGED <<tMounted, duration, dismissible, isExiting, progress, isPaused,
                   interval, timeouts, hovered, clicks, onDismissCalls>>
    /\ UNCHANGED <<listVars, selectVars, pageVars, formVars>>

NextToasts ==
    \/ \E cfg \in ToastConfigs, r \in Randoms : showToast(cfg, r)
    \/ \E id \in ToastIds : dismissToast(id)
    \/ dismissAll
    \/ \E id \in ToastIds, u \in ToastUpdates : updateToast(id, u)
    \/ RenderProvider
    \/ ListTick

InitListIdle ==
    /\ toasts = <<>>
    /\ toastsRef = <<>>
    /\ maxToasts = 0
    /\ shown = 0
    /\ lastReturned = ""
    /\ batch = 0

(***************************************************************************)
(*                                 Select                                  *)
(***************************************************************************)

\* Strings are sequences of characters, so that toLowerCase and includes are
\* computed.
Lower(c) == CASE c = "A" -> "a" [] c = "B" -> "b" [] OTHER -> c
toLowerCase(str) == [i \in DOMAIN str |-> Lower(str[i])]
includes(str, sub) ==
    \E i \in 0..(Len(str) - Len(sub)) : SubSeq(str, i + 1, i + Len(sub)) = sub

\* The options prop.
options ==
    << [value |-> "v1", label |-> <<"A", "b">>, disabled |-> FALSE],
       [value |-> "v2", label |-> <<"b", "a">>, disabled |-> TRUE],
       [value |-> "v3", label |-> <<"B">>,      disabled |-> FALSE] >>

\* What the user types in the search box.
SearchTerms == { <<>>, <<"a">>, <<"B">>, <<"a", "b">>, <<"x">> }

\* The keys pressed on the Select ("a" stands for any other key).
Keys == {"Enter", " ", "ArrowDown", "ArrowUp", "Escape", "Tab", "a"}

NoCall == "<not called>"

\* options filtered by the search term (case-insensitive substring match)
FilterBy(term) ==
    LET Match(opt) == includes(toLowerCase(opt.label), toLowerCase(term))
    IN  SelectSeq(options, Match)

filteredOptions ==
    IF sProps.searchable /\ searchTerm # <<>> THEN FilterBy(searchTerm) ELSE options

\* filteredOptions[highlightedIndex] is defined
HasOption(i) == i >= 0 /\ i < Len(filteredOptions)

InitSelectIdle ==
    /\ sIsOpen = FALSE
    /\ searchTerm = <<>>
    /\ highlightedIndex = -1
    /\ sValue = ""
    /\ sProps = [searchable |-> FALSE, disabled |-> FALSE, clearable |-> FALSE,
                 onChange |-> FALSE, onSearch |-> FALSE]
    /\ sThrew = FALSE
    /\ sLast = [h |-> "mount", key |-> "", term |-> <<>>, onChange |-> NoCall,
                onSearch |-> NoCall, wasOpen |-> FALSE, n |-> 0]

InitSelect ==
    /\ sIsOpen = FALSE
    /\ searchTerm = <<>>
    /\ highlightedIndex = -1
    /\ sValue \in {"", "v1"}
    /\ sProps \in [searchable : BOOLEAN, disabled : BOOLEAN, clearable : {TRUE},
                   onChange : BOOLEAN, onSearch : BOOLEAN]
    /\ sThrew = FALSE
    /\ sLast = [h |-> "mount", key |-> "", term |-> <<>>, onChange |-> NoCall,
                onSearch |-> NoCall, wasOpen |-> FALSE, n |-> 0]

\* The record of an event: the handler, the key pressed, the callbacks invoked and
\* whether the dropdown was open; n alternates so that every event is a step.
Event(h, key, chg, srch) ==
    [h |-> h, key |-> key, term |-> <<>>, onChange |-> chg, onSearch |-> srch,
     wasOpen |-> sIsOpen, n |-> 1 - sLast.n]

\* callback?.(arg): the argument the callback receives, if there is a callback.
OptionalCall(present, arg) == IF present THEN arg ELSE NoCall

\* The parent of a controlled Select stores what onChange hands it.
ParentValue(chg) == IF chg = NoCall THEN sValue ELSE chg

\* Mutant of handleSelect: onChange is called without the ?. guard, so a missing
\* onChange raises a TypeError before the state updates.
handleSelect_unguarded(optionValue, h, key) ==
    IF sProps.onChange
    THEN /\ sIsOpen' = FALSE
         /\ searchTerm' = <<>>
         /\ sValue' = optionValue
         /\ sLast' = Event(h, key, optionValue, NoCall)
         /\ UNCHANGED sThrew
    ELSE /\ sThrew' = TRUE
         /\ sLast' = Event(h, key, NoCall, NoCall)
         /\ UNCHANGED <<sIsOpen, searchTerm, sValue>>

\* handleSelect(optionValue), called from the handler h
handleSelect(optionValue, h, key) ==
    /\ sIsOpen' = FALSE
    /\ searchTerm' = <<>>
    /\ sValue' = ParentValue(OptionalCall(sProps.onChange, optionValue))
    /\ sLast' = Event(h, key, OptionalCall(sProps.onChange, optionValue), NoCall)
    /\ UNCHANGED sThrew

\* A click on the trigger: handleToggle.
handleToggle ==
    /\ IF ~sProps.disabled
       THEN /\ sIsOpen' = ~sIsOpen
            /\ searchTerm' = <<>>
            /\ highlightedIndex' = -1
       ELSE UNCHANGED <<sIsOpen, searchTerm, highlightedIndex>>
    /\ sLast' = Event("toggle", "", NoCall, NoCall)
    /\ UNCHANGED <<sValue, sProps, sThrew>>
    /\ UNCHANGED <<toastVars, listVars, pageVars, formVars>>

\* A click on the option at index i of the open dropdown.
ClickOption(i) ==
    /\ sIsOpen
    /\ HasOption(i)
    /\ IF ~filteredOptions[i + 1].disabled
       THEN handleSelect(filteredOptions[i + 1].value, "select", "")
       ELSE /\ sLast' = Event("clickDisabled", "", NoCall, NoCall)
            /\ UNCHANGED <<sIsOpen, searchTerm, sValue, sThrew>>
    /\ UNCHANGED <<highlightedIndex, sProps>>
    /\ UNCHANGED <<toastVars, listVars, pageVars, formVars>>

\* The pointer enters the option at index i: setHighlightedIndex(index).
OptionMouseEnter(i) ==
    /\ sIsOpen
    /\ HasOption(i)
    /\ highlightedIndex' = i
    /\ sLast' = Event("hover", "", NoCall, NoCall)
    /\ UNCHANGED <<sIsOpen, searchTerm, sValue, sProps, sThrew>>
    /\ UNCHANGED <<toastVars, listVars, pageVars, formVars>>

\* A click on the clear button (rendered when clearable && value && !disabled).
handleClear ==
    /\ sProps.clearable
    /\ sValue # ""
    /\ ~sProps.disabled
    /\ searchTerm' = <<>>
    /\ sValue' = ParentValue(OptionalCall(sProps.onChange, ""))
    /\ sLast' = Event("clear", "", OptionalCall(sProps.onChange, ""), NoCall)
    /\ UNCHANGED <<sIsOpen, highlightedIndex, sProps, sThrew>>
    /\ UNCHANGED <<toastVars, listVars, pageVars, formVars>>

\* Typing in the search input (rendered when isOpen && searchable).
handleSearchChange(term) ==
    /\ sIsOpen
    /\ sProps.searchable
    /\ searchTerm' = term
    /\ highlightedIndex' = -1
    /\ sLast' = [Event("search", "", NoCall, OptionalCall(sProps.onSearch, term))
                    EXCEPT !.term = term]
    /\ UNCHANGED <<sIsOpen, sValue, sProps, sThrew>>
    /\ UNCHANGED <<toastVars, listVars, pageVars, formVars>>

\* Mutant of ArrowDownIndex: the highlight wraps to the first option.
ArrowDownIndex_wrap(prev, len) == IF prev < len - 1 THEN prev + 1 ELSE 0

\* prev => prev < filteredOptions.length - 1 ? prev + 1 : prev
ArrowDownIndex(prev, len) == IF prev < len - 1 THEN prev + 1 ELSE prev

\* prev => prev > 0 ? prev - 1 : -1
ArrowUpIndex(prev) == IF prev > 0 THEN prev - 1 ELSE -1

\* Mutant of ClosesOnKey: Tab leaves the dropdown open.
ClosesOnKey_noTab(key) == key = "Escape"

\* The keys of the switch that close the dropdown and reset the search term.
ClosesOnKey(key) == key \in {"Escape", "Tab"}

\* onKeyDown of the combobox element.
handleKeyDown(key) ==
    /\ IF ~sIsOpen
       THEN /\ sIsOpen' = (key \in {"Enter", " ", "ArrowDown"})
            /\ sLast' = Event("keydown", key, NoCall, NoCall)
            /\ UNCHANGED <<searchTerm, highlightedIndex, sValue, sThrew>>
       ELSE CASE key = "ArrowDown" ->
                    /\ highlightedIndex' =
                            ArrowDownIndex(highlightedIndex, Len(filteredOptions))
                    /\ sLast' = Event("keydown", key, NoCall, NoCall)
                    /\ UNCHANGED <<sIsOpen, searchTerm, sValue, sThrew>>
              [] key = "ArrowUp" ->
                    /\ highlightedIndex' = ArrowUpIndex(highlightedIndex)
                    /\ sLast' = Event("keydown", key, NoCall, NoCall)
                    /\ UNCHANGED <<sIsOpen, searchTerm, sValue, sThrew>>
              [] key = "Enter" ->
                    /\ IF highlightedIndex >= 0 /\ HasOption(highlightedIndex)
                       THEN handleSelect(filteredOptions[highlightedIndex + 1].value,
                                         "keydown", key)
                       ELSE /\ sLast' = Event("keydown", key, NoCall, NoCall)
                            /\ UNCHANGED <<sIsOpen, searchTerm, sValue, sThrew>>
                    /\ UNCHANGED highlightedIndex
              [] ClosesOnKey(key) ->
                    /\ sIsOpen' = FALSE
                    /\ searchTerm' = <<>>
                    /\ sLast' = Event("keydown", key, NoCall, NoCall)
                    /\ UNCHANGED <<highlightedIndex, sValue, sThrew>>
              [] OTHER ->
                    /\ sLast' = Event("keydown", key, NoCall, NoCall)
                    /\ UNCHANGED <<sIsOpen, searchTerm, highlightedIndex, sValue, sThrew>>
    /\ UNCHANGED sProps
    /\ UNCHANGED <<toastVars, listVars, pageVars, formVars>>

\* containerRef.current.contains(event.target)
ContainerContains(inside) == inside

\* The document mousedown listener registered at mount: handleClickOutside.
handleClickOutside(inside) ==
    /\ IF ~ContainerContains(inside)
       THEN /\ sIsOpen' = FALSE
            /\ searchTerm' = <<>>
       ELSE UNCHANGED <<sIsOpen, searchTerm>>
    /\ sLast' = Event(IF inside THEN "mousedownInside" ELSE "mousedownOutside",
                      "", NoCall, NoCall)
    /\ UNCHANGED <<highlightedIndex, sValue, sProps, sThrew>>
    /\ UNCHANGED <<toastVars, listVars, pageVars, formVars>>

OptionIndexes == 0..(Len(options) - 1)

NextSelect ==
    \/ handleToggle
    \/ \E i \in OptionIndexes : ClickOption(i)
    \/ \E i \in OptionIndexes : OptionMouseEnter(i)
    \/ handleClear
    \/ \E term \in SearchTerms : handleSearchChange(term)
    \/ \E key \in Keys : handleKeyDown(key)
    \/ \E inside \in BOOLEAN : handleClickOutside(inside)

(***************************************************************************)
(*                                  Menu                                   *)
(***************************************************************************)

\* The children of Menu.Content: Menu.Item elements with or without onClick.
menuItems ==
    << [onClick |-> TRUE,  disabled |-> FALSE],
       [onClick |-> FALSE, disabled |-> FALSE],
       [onClick |-> TRUE,  disabled |-> TRUE] >>

MenuKeys == {"Escape", "Enter", "ArrowDown"}

\* Mutant of MenuListeners: the keydown listener is never registered.
MenuListeners_noKeydown(isOpen) == [mousedown |-> isOpen, keydown |-> FALSE]

\* The two effects on [isOpen]: each removes its listener in its cleanup and adds
\* it again only if (isOpen).
MenuListeners(isOpen) == [mousedown |-> isOpen, keydown |-> isOpen]

\* child.type === Menu.Content: isOpen ? cloneElement(child, ...) : null
ContentRendered == mIsOpen

MenuEvent(h, key, inside) ==
    [h |-> h, key |-> key, inside |-> inside, wasOpen |-> mIsOpen, n |-> 1 - mLast.n]

InitMenu ==
    /\ mIsOpen = FALSE
    /\ mListening = MenuListeners(FALSE)
    /\ mLast = [h |-> "mount", key |-> "", inside |-> FALSE, wasOpen |-> FALSE, n |-> 0]

\* setIsOpen(v) followed by the commit and the effects.
MenuSetIsOpen(v) ==
    /\ mIsOpen' = v
    /\ mListening' = MenuListeners(v)

\* A click on Menu.Trigger: setIsOpen(!isOpen).
MenuClickTrigger ==
    /\ MenuSetIsOpen(~mIsOpen)
    /\ mLast' = MenuEvent("clickTrigger", "", TRUE)
    /\ UNCHANGED <<openItems, aProps, aLast, rLast>>
    /\ UNCHANGED <<toastVars, listVars, selectVars, formVars>>

\* A mousedown on the document, inside or outside the menu element.
MenuMouseDown(inside) ==
    /\ IF mListening.mousedown /\ ~inside
       THEN MenuSetIsOpen(FALSE)
       ELSE UNCHANGED <<mIsOpen, mListening>>
    /\ mLast' = MenuEvent("mousedown", "", inside)
    /\ UNCHANGED <<openItems, aProps, aLast, rLast>>
    /\ UNCHANGED <<toastVars, listVars, selectVars, formVars>>

\* A keydown on the document.
MenuKeyDown(key) ==
    /\ IF mListening.keydown /\ key = "Escape"
       THEN MenuSetIsOpen(FALSE)
       ELSE UNCHANGED <<mIsOpen, mListening>>
    /\ mLast' = MenuEvent("keydown", key, FALSE)
    /\ UNCHANGED <<openItems, aProps, aLast, rLast>>
    /\ UNCHANGED <<toastVars, listVars, selectVars, formVars>>

\* A click on a Menu.Item of the rendered content: handleClick.
MenuItemClick(i) ==
    /\ ContentRendered
    /\ IF ~menuItems[i].disabled /\ menuItems[i].onClick
       THEN MenuSetIsOpen(FALSE)
       ELSE UNCHANGED <<mIsOpen, mListening>>
    /\ mLast' = MenuEvent("clickItem", "", TRUE)
    /\ UNCHANGED <<openItems, aProps, aLast, rLast>>
    /\ UNCHANGED <<toastVars, listVars, selectVars, formVars>>

(***************************************************************************)
(*                               Accordion                                 *)
(***************************************************************************)

\* The ids of the Accordion.Item elements.
ItemIds == {"1", "2", "3"}

Undefined == "<undefined>"

\* toggleItem: the new set of open items.
toggleItem(open, type, itemId) ==
    IF type = "single"
    THEN (IF itemId \in open THEN open \ {itemId} ELSE {itemId})
    ELSE (IF itemId \in open THEN open \ {itemId} ELSE open \cup {itemId})

\* trigger?.dataset.accordionItemId of the trigger of the clicked item:
\* Accordion.Simple passes data-accordion-item-id={item.id} to the trigger; an
\* Accordion.Trigger written by hand inside Accordion.Item id=... carries none.
TriggerItemId(composition, item) ==
    IF composition = "simple" THEN item ELSE Undefined

InitAccordion ==
    /\ aProps \in [type : {"single", "multiple"}, composition : {"manual", "simple"}]
    /\ openItems \in SUBSET ItemIds
    /\ aLast = [item |-> Undefined, onChange |-> NoCall, n |-> 0]

\* A click on the Accordion.Trigger inside the item: handleClick.
AccordionClickTrigger(item) ==
    /\ LET itemId == TriggerItemId(aProps.composition, item)
       IN  IF itemId # Undefined /\ itemId # ""
           THEN /\ openItems' = toggleItem(openItems, aProps.type, itemId)
                /\ aLast' = [item |-> item, n |-> 1 - aLast.n,
                             onChange |-> toggleItem(openItems, aProps.type, itemId)]
           ELSE /\ UNCHANGED openItems
                /\ aLast' = [item |-> item, n |-> 1 - aLast.n, onChange |-> NoCall]
    /\ UNCHANGED <<mIsOpen, mListening, mLast, aProps, rLast>>
    /\ UNCHANGED <<toastVars, listVars, selectVars, formVars>>

(***************************************************************************)
(*                           Context consumers                             *)
(***************************************************************************)

\* JavaScript values, as far as truthiness goes.
Null == [t |-> "null", v |-> ""]
Object(v) == [t |-> "object", v |-> v]
Falsy(x) == x.t \in {"null", "undefined"}

\* createContext(...): the value useContext returns outside every provider.
RadioContextDefault == Object("{}")

\* Mutant of ToastContextDefault: the context is created with an empty object.
ToastContextDefault_object == Object("{}")

ToastContextDefault == Null
ThemeContextDefault == Null

\* The value each provider passes down.
ProviderValue(consumer) ==
    CASE consumer = "Radio" -> Object("RadioGroup value")
      [] consumer = "useToastContext" -> Object("useToast()")
      [] consumer = "useTheme" -> Object("theme value")

ContextDefault(consumer) ==
    CASE consumer = "Radio" -> RadioContextDefault
      [] consumer = "useToastContext" -> ToastContextDefault
      [] consumer = "useTheme" -> ThemeContextDefault

Consumers == {"Radio", "useToastContext", "useTheme"}

useContext(consumer, inside) ==
    IF inside THEN ProviderValue(consumer) ELSE ContextDefault(consumer)

InitConsumers ==
    rLast = [consumer |-> "", inside |-> FALSE, threw |-> FALSE, value |-> Null]

\* A component that renders Radio, or calls useToastContext or useTheme, is rendered
\* inside or outside the provider: if (!context) throw new Error(...).
RenderConsumer(consumer, inside) ==
    /\ LET context == useContext(consumer, inside)
       IN  rLast' = [consumer |-> consumer, inside |-> inside,
                     threw |-> Falsy(context),
                     value |-> IF Falsy(context) THEN Null ELSE context]
    /\ UNCHANGED <<mIsOpen, mListening, mLast, openItems, aProps, aLast>>
    /\ UNCHANGED <<toastVars, listVars, selectVars, formVars>>

InitPageIdle ==
    /\ mIsOpen = FALSE
    /\ mListening = [mousedown |-> FALSE, keydown |-> FALSE]
    /\ mLast = [h |-> "mount", key |-> "", inside |-> FALSE, wasOpen |-> FALSE, n |-> 0]
    /\ openItems = {}
    /\ aProps = [type |-> "single", composition |-> "simple"]
    /\ aLast = [item |-> Undefined, onChange |-> NoCall, n |-> 0]
    /\ rLast = [consumer |-> "", inside |-> FALSE, threw |-> FALSE, value |-> Null]

(***************************************************************************)
(*                             ThemeProvider                               *)
(***************************************************************************)

Themes == {"light", "dark", "system"}

\* localStorage.getItem returns null for a key that was never set.
NoItem == "<null>"

ThemeProps ==
    [defaultTheme : Themes, enableSystem : BOOLEAN,
     forcedTheme : {Undefined, "light", "dark"}]

\* window.matchMedia('(prefers-color-scheme: dark)').matches ? 'dark' : 'light'
SystemTheme(dark) == IF dark THEN "dark" ELSE "light"

\* Mutant of InitialTheme: the stored theme is not read.
InitialTheme_noStorage(stored, props, dark) ==
    IF props.enableSystem THEN SystemTheme(dark) ELSE props.defaultTheme

\* The initializer of useState: the stored theme if there is one (and it is not
\* the empty string), else the system preference if enableSystem, else defaultTheme.
InitialTheme(stored, props, dark) ==
    IF stored # NoItem /\ stored # "" THEN stored
    ELSE IF props.enableSystem THEN SystemTheme(dark)
    ELSE props.defaultTheme

\* const resolvedTheme = theme === 'system' ? (matches ? 'dark' : 'light') : theme
Resolve(th, dark) == IF th = "system" THEN SystemTheme(dark) ELSE th

\* forcedTheme || resolvedTheme
ForcedOr(forced, resolved) == IF forced = Undefined THEN resolved ELSE forced

\* value.resolvedTheme of the context, which ThemeToggle reads.
ContextResolvedTheme == ForcedOr(thProps.forcedTheme, resolvedTheme)

\* What a render leaves in resolvedTheme after setThemeState(newTheme): React
\* re-renders when the state changed, and may or may not when it did not.
Rendered(newTheme, dark) ==
    IF newTheme = theme THEN {resolvedTheme, Resolve(newTheme, dark)}
    ELSE {Resolve(newTheme, dark)}

InitThemeIdle ==
    /\ theme = "dark" /\ storage = NoItem /\ systemDark = TRUE
    /\ thProps = [defaultTheme |-> "dark", enableSystem |-> TRUE, forcedTheme |-> Undefined]
    /\ resolvedTheme = "dark" /\ docTheme = "dark" /\ persisted = FALSE
    /\ thLast = [h |-> "mount", n |-> 0]

\* setTheme(newTheme): setThemeState(newTheme); localStorage.setItem(storageKey, newTheme),
\* then the render and the document effect.
setTheme(newTheme, h) ==
    /\ theme' = newTheme
    /\ storage' = newTheme
    /\ resolvedTheme' \in Rendered(newTheme, systemDark)
    /\ docTheme' = ForcedOr(thProps.forcedTheme, resolvedTheme')
    /\ persisted' = TRUE
    /\ thLast' = [h |-> h, n |-> 1 - thLast.n]
    /\ UNCHANGED <<systemDark, thProps>>
    /\ UNCHANGED <<modalVars, sliderVars, paginationVars, checkboxVars, tabsVars>>
    /\ UNCHANGED <<toastVars, listVars, selectVars, pageVars>>

\* toggleTheme(): setTheme(resolvedTheme === 'dark' ? 'light' : 'dark')
toggleTheme == setTheme(IF resolvedTheme = "dark" THEN "light" ELSE "dark", "toggleTheme")

\* The system preference changes; the media-query listener exists only while
\* enableSystem and theme === 'system', and calls setThemeState('system').
SystemPreferenceChange ==
    /\ systemDark' = ~systemDark
    /\ resolvedTheme' \in
          (IF thProps.enableSystem /\ theme = "system"
           THEN Rendered("system", systemDark') ELSE {resolvedTheme})
    /\ docTheme' = ForcedOr(thProps.forcedTheme, resolvedTheme')
    /\ thLast' = [h |-> "system", n |-> 1 - thLast.n]
    /\ UNCHANGED <<theme, storage, thProps, persisted>>
    /\ UNCHANGED <<modalVars, sliderVars, paginationVars, checkboxVars, tabsVars>>
    /\ UNCHANGED <<toastVars, listVars, selectVars, pageVars>>

\* The provider is unmounted and a ThemeProvider with the same storageKey is mounted.
RemountTheme(props) ==
    /\ thProps' = props
    /\ theme' = InitialTheme(storage, props, systemDark)
    /\ resolvedTheme' = Resolve(theme', systemDark)
    /\ docTheme' = ForcedOr(props.forcedTheme, resolvedTheme')
    /\ thLast' = [h |-> "mount", n |-> 1 - thLast.n]
    /\ UNCHANGED <<storage, systemDark, persisted>>
    /\ UNCHANGED <<modalVars, sliderVars, paginationVars, checkboxVars, tabsVars>>
    /\ UNCHANGED <<toastVars, listVars, selectVars, pageVars>>

NextTheme ==
    \/ \E t \in Themes : setTheme(t, "setTheme")
    \/ toggleTheme
    \/ SystemPreferenceChange
    \/ \E props \in ThemeProps : RemountTheme(props)

(***************************************************************************)
(*                                 Modal                                   *)
(***************************************************************************)

\* The props of the Modal. onClose is not passed, or is a callback that leaves
\* isOpen alone, or one that makes the parent render the Modal with isOpen = false.
ModalProps ==
    [isOpen : BOOLEAN, closeOnBackdrop : BOOLEAN, closeOnEscape : BOOLEAN,
     showCloseButton : BOOLEAN, onClose : {"absent", "ignore", "close"}]

\* Mutant of EscapeListening: the listener is registered whatever isOpen is.
EscapeListening_always(props) == props.closeOnEscape

\* The escape effect: if (!isOpen || !closeOnEscape) return; addEventListener(...)
EscapeListening(props) == props.isOpen /\ props.closeOnEscape

\* The elements the Modal renders: none when !isOpen (return null).
ModalElements(props) ==
    IF ~props.isOpen THEN {}
    ELSE {"backdrop", "content"} \cup (IF props.showCloseButton THEN {"close"} ELSE {})

\* The scroll effect of a Modal whose isOpen went from was to isOpen: its deps are
\* [isOpen], so it runs only on a change; the cleanup sets overflow to '' and the
\* effect then sets 'hidden' if isOpen and '' otherwise.
ScrollEffect(overflow, was, isOpen) ==
    IF was = isOpen THEN overflow
    ELSE IF isOpen THEN "hidden" ELSE ""

InitModalIdle ==
    /\ mdProps = [isOpen |-> FALSE, closeOnBackdrop |-> TRUE, closeOnEscape |-> TRUE,
                  showCloseButton |-> TRUE, onClose |-> "absent"]
    /\ mdListening = FALSE
    /\ mdLast = [h |-> "render", key |-> "", target |-> "", calls |-> 0, n |-> 0]
    /\ mdOther = "unmounted"
    /\ bodyOverflow = ""

\* An event of the Modal that made `calls` calls of onClose?.(), followed by the
\* parent's render if the callback closes the Modal.
ModalEvent(h, key, target, called) ==
    LET calls == IF called /\ mdProps.onClose # "absent" THEN 1 ELSE 0
        props == IF calls > 0 /\ mdProps.onClose = "close"
                 THEN [mdProps EXCEPT !.isOpen = FALSE] ELSE mdProps
    IN  /\ mdProps' = props
        /\ mdListening' = EscapeListening(props)
        /\ bodyOverflow' = ScrollEffect(bodyOverflow, mdProps.isOpen, props.isOpen)
        /\ mdLast' = [h |-> h, key |-> key, target |-> target, calls |-> calls,
                      n |-> 1 - mdLast.n]
        /\ UNCHANGED mdOther
        /\ UNCHANGED <<themeVars, sliderVars, paginationVars, checkboxVars, tabsVars>>
        /\ UNCHANGED <<toastVars, listVars, selectVars, pageVars>>

\* The parent renders the Modal with new props.
ModalRender(props) ==
    /\ mdProps' = props
    /\ mdListening' = EscapeListening(props)
    /\ bodyOverflow' = ScrollEffect(bodyOverflow, mdProps.isOpen, props.isOpen)
    /\ mdLast' = [h |-> "render", key |-> "", target |-> "", calls |-> 0,
                  n |-> 1 - mdLast.n]
    /\ UNCHANGED mdOther
    /\ UNCHANGED <<themeVars, sliderVars, paginationVars, checkboxVars, tabsVars>>
    /\ UNCHANGED <<toastVars, listVars, selectVars, pageVars>>

\* A keydown event reaches document: handleEscape runs if it is registered.
ModalKeyDown(key) ==
    ModalEvent("keydown", key, "", mdListening /\ key = "Escape")

\* A click on the backdrop, inside the dialog content, on the close button or
\* outside the Modal: onClick={onClose} of the button, then handleBackdropClick
\* as the event bubbles to the backdrop.
ModalClick(target) ==
    /\ target \in ModalElements(mdProps) \cup {"outside"}
    /\ ModalEvent("click", "", target,
                  \/ target = "close"
                  \/ (mdProps.closeOnBackdrop /\ target = "backdrop"))

\* The second Modal is mounted (closed or open), rendered with another isOpen, or
\* unmounted: mounting runs its scroll effect, a change of isOpen the cleanup and
\* the effect, unmounting the cleanup.
OtherModalRender(next) ==
    /\ next # mdOther
    /\ mdOther' = next
    /\ bodyOverflow' = IF next = "open" THEN "hidden" ELSE ""
    /\ mdLast' = [h |-> "other", key |-> "", target |-> "", calls |-> 0,
                  n |-> 1 - mdLast.n]
    /\ UNCHANGED <<mdProps, mdListening>>
    /\ UNCHANGED <<themeVars, sliderVars, paginationVars, checkboxVars, tabsVars>>
    /\ UNCHANGED <<toastVars, listVars, selectVars, pageVars>>

NextModal ==
    \/ \E props \in ModalProps : ModalRender(props)
    \/ \E next \in {"unmounted", "closed", "open"} : OtherModalRender(next)
    \/ \E key \in {"Escape", "Enter"} : ModalKeyDown(key)
    \/ \E target \in {"backdrop", "content", "close", "outside"} : ModalClick(target)

(***************************************************************************)
(*                                 Slider                                  *)
(***************************************************************************)

\* Bound of the model: the width of the track in pixels (its left edge is at 0).
TrackWidth == 4

\* Props min, max, step of the sliders of the model.
SliderRanges ==
    { [min |-> 0, max |-> 10, step |-> 1],
      [min |-> 0 - 5, max |-> 5, step |-> 3],
      [min |-> 1, max |-> 10, step |-> 4] }

SliderKeys == {"ArrowLeft", "ArrowDown", "ArrowRight", "ArrowUp", "Home", "End", "a"}

\* Math.round(num / den) for den > 0: the nearest integer, halves towards +Infinity.
MathRound(num, den) == (2 * num + den) \div (2 * den)

\* Mutant of getValueFromPosition: the value is not clamped to [min, max].
getValueFromPosition_unclamped(clientX, p) ==
    MathRound(p.min * TrackWidth + clientX * (p.max - p.min), TrackWidth * p.step) * p.step

\* getValueFromPosition(clientX): position = (clientX - rect.left) / rect.width,
\* newValue = min + position * (max - min), rounded to a multiple of step and
\* clamped to [min, max].
getValueFromPosition(clientX, p) ==
    LET stepped ==
            MathRound(p.min * TrackWidth + clientX * (p.max - p.min),
                      TrackWidth * p.step) * p.step
    IN  Max(p.min, Min(p.max, stepped))

InitSliderIdle ==
    /\ internalValue = 0
    /\ isDragging = FALSE
    /\ slProps = [min |-> 0, max |-> 100, step |-> 1, disabled |-> FALSE]
    /\ slLast = [h |-> "mount", key |-> "", called |-> FALSE, arg |-> 0, n |-> 0]

\* An event of the Slider: setInternalValue(newValue); onChange?.(newValue) when
\* the handler gets that far, nothing otherwise.
SliderEvent(h, key, changes, newValue, dragging) ==
    /\ internalValue' = IF changes THEN newValue ELSE internalValue
    /\ isDragging' = dragging
    /\ slLast' = [h |-> h, key |-> key, called |-> changes,
                  arg |-> IF changes THEN newValue ELSE 0, n |-> 1 - slLast.n]
    /\ UNCHANGED slProps
    /\ UNCHANGED <<themeVars, modalVars, paginationVars, checkboxVars, tabsVars>>
    /\ UNCHANGED <<toastVars, listVars, selectVars, pageVars>>

\* handleMouseDown on the track
SliderMouseDown(clientX) ==
    SliderEvent("mousedown", "", ~slProps.disabled,
                getValueFromPosition(clientX, slProps),
                IF slProps.disabled THEN isDragging ELSE TRUE)

\* handleMouseMove, a document listener while isDragging
SliderMouseMove(clientX) ==
    SliderEvent("mousemove", "", isDragging /\ ~slProps.disabled,
                getValueFromPosition(clientX, slProps), isDragging)

\* handleMouseUp, a document listener while isDragging
SliderMouseUp ==
    SliderEvent("mouseup", "", FALSE, 0, FALSE)

\* handleKeyDown on the thumb
SliderKeyDown(key) ==
    LET p == slProps
        newValue ==
            IF key \in {"ArrowLeft", "ArrowDown"} THEN Max(p.min, internalValue - p.step)
            ELSE IF key \in {"ArrowRight", "ArrowUp"} THEN Min(p.max, internalValue + p.step)
            ELSE IF key = "Home" THEN p.min
            ELSE p.max
    IN  SliderEvent("keydown", key,
                    ~p.disabled /\ key \in SliderKeys \ {"a"}, newValue, isDragging)

NextSlider ==
    \/ \E x \in 0..TrackWidth : SliderMouseDown(x)
    \/ \E x \in (0 - 1)..(TrackWidth + 1) : SliderMouseMove(x)
    \/ SliderMouseUp
    \/ \E key \in SliderKeys : SliderKeyDown(key)

(***************************************************************************)
(*                               Pagination                                *)
(***************************************************************************)

\* Bound of the model: totalPages is at most MaxPages.
MaxPages == 9

\* const maxVisible = 5
maxVisible == 5

\* An entry of the page list: a page number, or the string '...'.
Page(n) == [ellipsis |-> FALSE, n |-> n]
Ellipsis == [ellipsis |-> TRUE, n |-> 0]

\* Mutant of getPageNumbers: the middle window is never used.
getPageNumbers_noMiddle(cur, total) ==
    IF total <= maxVisible THEN [i \in 1..total |-> Page(i)]
    ELSE IF cur <= 3
    THEN <<Page(1), Page(2), Page(3), Page(4), Ellipsis, Page(total)>>
    ELSE <<Page(1), Ellipsis, Page(total - 3), Page(total - 2), Page(total - 1),
           Page(total)>>

\* getPageNumbers()
getPageNumbers(cur, total) ==
    IF total <= maxVisible THEN [i \in 1..total |-> Page(i)]
    ELSE IF cur <= 3
    THEN <<Page(1), Page(2), Page(3), Page(4), Ellipsis, Page(total)>>
    ELSE IF cur >= total - 2
    THEN <<Page(1), Ellipsis, Page(total - 3), Page(total - 2), Page(total - 1),
           Page(total)>>
    ELSE <<Page(1), Ellipsis, Page(cur - 1), Page(cur), Page(cur + 1), Ellipsis,
           Page(total)>>

InitPaginationIdle ==
    /\ currentPage = 1
    /\ totalPages = 1
    /\ pages = <<Page(1)>>

\* handlePageClick(page): onPageChange(page) unless page is '...' or the current
\* page; the parent then renders the Pagination with currentPage = page.
handlePageClick(page) ==
    /\ currentPage' = IF ~page.ellipsis /\ page.n # currentPage THEN page.n ELSE currentPage
    /\ pages' = getPageNumbers(currentPage', totalPages)
    /\ UNCHANGED totalPages
    /\ UNCHANGED <<themeVars, modalVars, sliderVars, checkboxVars, tabsVars>>
    /\ UNCHANGED <<toastVars, listVars, selectVars, pageVars>>

\* A click on the i-th entry of the page list (an ellipsis is a span with no handler).
PageButtonClick(i) ==
    /\ i \in DOMAIN pages
    /\ ~pages[i].ellipsis
    /\ handlePageClick(pages[i])

\* The Previous button, disabled while currentPage <= 1.
PreviousClick ==
    /\ currentPage > 1
    /\ handlePageClick(Page(currentPage - 1))

\* The Next button, disabled while currentPage >= totalPages.
NextClick ==
    /\ currentPage < totalPages
    /\ handlePageClick(Page(currentPage + 1))

NextPagination ==
    \/ \E i \in 1..(maxVisible + 2) : PageButtonClick(i)
    \/ PreviousClick
    \/ NextClick

(***************************************************************************)
(*                             CheckboxGroup                               *)
(***************************************************************************)

CheckboxValues == {"tech", "design", "business"}

\* defaultValue of the groups of the model.
DefaultValues == { <<>>, <<"tech", "design">>, <<"business">> }

\* Checkbox in a group: isChecked = context.selectedValues.includes(value)
isChecked(selectedValues, value) ==
    \E i \in DOMAIN selectedValues : selectedValues[i] = value

\* Mutant of NewValues: checking a box replaces the selection by that value.
NewValues_replace(selectedValues, value, checked) ==
    IF checked THEN <<value>>
    ELSE SelectSeq(selectedValues, LAMBDA v : v # value)

\* newValues of CheckboxGroup.handleChange(value, isChecked)
NewValues(selectedValues, value, checked) ==
    IF checked THEN Append(selectedValues, value)
    ELSE SelectSeq(selectedValues, LAMBDA v : v # value)

InitCheckboxIdle ==
    /\ uncontrolledValue = <<>>
    /\ cgProps = [disabled |-> FALSE, onChange |-> FALSE]
    /\ cgLast = [value |-> "", checked |-> FALSE, called |-> FALSE, arg |-> <<>>,
                 prev |-> <<>>, n |-> 0]

\* The user clicks the Checkbox with this value: the input's change event has
\* e.target.checked = !isChecked, Checkbox.handleChange calls context.onChange,
\* which is CheckboxGroup.handleChange: setUncontrolledValue(newValues);
\* onChange?.(newValues).
CheckboxChange(value) ==
    /\ ~cgProps.disabled
    /\ LET checked == ~isChecked(uncontrolledValue, value)
           newValues == NewValues(uncontrolledValue, value, checked)
       IN  /\ uncontrolledValue' = newValues
           /\ cgLast' = [value |-> value, checked |-> checked,
                         called |-> cgProps.onChange,
                         arg |-> IF cgProps.onChange THEN newValues ELSE <<>>,
                         prev |-> uncontrolledValue, n |-> 1 - cgLast.n]
    /\ UNCHANGED cgProps
    /\ UNCHANGED <<themeVars, modalVars, sliderVars, paginationVars, tabsVars>>
    /\ UNCHANGED <<toastVars, listVars, selectVars, pageVars>>

NextCheckboxGroup ==
    \E value \in CheckboxValues : CheckboxChange(value)

(***************************************************************************)
(*                                 Tabs                                    *)
(***************************************************************************)

\* The value props of the Tabs.Trigger / Tabs.Content children, in DOM order.
TabValues == <<"tab1", "tab2", "tab3">>

\* Tabs: activeTab = isControlled ? controlledValue : uncontrolledValue,
\* with isControlled = controlledValue !== undefined
activeTab(value, uncontrolled) ==
    IF value # Undefined THEN value ELSE uncontrolled

\* The values of the Tabs.Content children that render a panel
\* (if (!isActive) return null).
TabsContent(active) ==
    { TabValues[k] : k \in { j \in DOMAIN TabValues : TabValues[j] = active } }

\* Mutant of NextIndex: the arrow keys stop at the two ends.
NextIndex_noWrap(index, key, length) ==
    IF key \in {"ArrowRight", "ArrowDown"}
    THEN (IF index + 1 >= length THEN index ELSE index + 1)
    ELSE IF key \in {"ArrowLeft", "ArrowUp"}
    THEN (IF index - 1 < 0 THEN index ELSE index - 1)
    ELSE IF key = "Home" THEN 0
    ELSE IF key = "End" THEN length - 1
    ELSE index

\* nextIndex of Tabs.Trigger.handleKeyDown (indices from 0, as in the code)
NextIndex(index, key, length) ==
    IF key \in {"ArrowRight", "ArrowDown"}
    THEN (IF index + 1 >= length THEN 0 ELSE index + 1)
    ELSE IF key \in {"ArrowLeft", "ArrowUp"}
    THEN (IF index - 1 < 0 THEN length - 1 ELSE index - 1)
    ELSE IF key = "Home" THEN 0
    ELSE IF key = "End" THEN length - 1
    ELSE index

InitTabsIdle ==
    /\ controlledValue = Undefined
    /\ tabsUncontrolledValue = Undefined
    /\ tbProps = [disabled |-> {}, onValueChange |-> FALSE]
    /\ tbFocus = -1
    /\ tbLast = [h |-> "", key |-> "", from |-> -1, index |-> -1,
                 called |-> FALSE, arg |-> "", n |-> 0]

\* The click event on trigger number index (a user click, or the click() of
\* handleKeyDown): Trigger.handleClick, and Tabs.setValue when the trigger is
\* not disabled.  h, key and from describe the event for tbLast.
TriggerClickEvent(index, h, key, from) ==
    LET acts == index \notin tbProps.disabled
        newValue == TabValues[index + 1]
    IN  /\ tabsUncontrolledValue' =
               IF acts /\ controlledValue = Undefined THEN newValue
               ELSE tabsUncontrolledValue
        /\ tbFocus' = index
        /\ tbLast' = [h |-> h, key |-> key, from |-> from, index |-> index,
                      called |-> acts /\ tbProps.onValueChange,
                      arg |-> IF acts /\ tbProps.onValueChange THEN newValue ELSE "",
                      n |-> 1 - tbLast.n]
        /\ UNCHANGED <<controlledValue, tbProps>>
        /\ UNCHANGED <<themeVars, modalVars, sliderVars, paginationVars, checkboxVars>>
        /\ UNCHANGED <<toastVars, listVars, selectVars, pageVars>>

\* A key goes down on the focused trigger: Tabs.Trigger.handleKeyDown.  Any
\* other key returns before focus() and click().
TriggerKeyDown(key) ==
    /\ tbFocus # -1
    /\ IF key \in {"ArrowRight", "ArrowDown", "ArrowLeft", "ArrowUp", "Home", "End"}
       THEN TriggerClickEvent(NextIndex(tbFocus, key, Len(TabValues)),
                              "keydown", key, tbFocus)
       ELSE /\ tbLast' = [h |-> "keydown", key |-> key, from |-> tbFocus,
                          index |-> -1, called |-> FALSE, arg |-> "",
                          n |-> 1 - tbLast.n]
            /\ UNCHANGED <<controlledValue, tabsUncontrolledValue, tbProps, tbFocus>>
            /\ UNCHANGED <<themeVars, modalVars, sliderVars, paginationVars,
                           checkboxVars>>
            /\ UNCHANGED <<toastVars, listVars, selectVars, pageVars>>

\* The parent renders Tabs with another value prop (a value, or none).
TabsRender(value) ==
    /\ value # controlledValue
    /\ controlledValue' = value
    /\ tbLast' = [h |-> "render", key |-> "", from |-> -1, index |-> -1,
                  called |-> FALSE, arg |-> "", n |-> 1 - tbLast.n]
    /\ UNCHANGED <<tabsUncontrolledValue, tbProps, tbFocus>>
    /\ UNCHANGED <<themeVars, modalVars, sliderVars, paginationVars, checkboxVars>>
    /\ UNCHANGED <<toastVars, listVars, selectVars, pageVars>>

NextTabs ==
    \* the user clicks a trigger; the button takes the focus
    \/ \E index \in 0..(Len(TabValues) - 1) :
           TriggerClickEvent(index, "click", "", tbFocus)
    \/ \E key \in {"ArrowRight", "ArrowDown", "ArrowLeft", "ArrowUp", "Home", "End",
                   "a"} : TriggerKeyDown(key)
    \/ \E value \in {TabValues[k] : k \in DOMAIN TabValues} \cup {Undefined} :
           TabsRender(value)

\* The widgets of this part of the model at rest.
InitFormIdle ==
    InitThemeIdle /\ InitModalIdle /\ InitSliderIdle /\ InitPaginationIdle
    /\ InitCheckboxIdle /\ InitTabsIdle

(***************************************************************************)
(*                            Specifications                               *)
(***************************************************************************)

\* A page with a Menu, an Accordion and context consumers.
Init == InitToastIdle /\ InitListIdle /\ InitSelectIdle
        /\ InitMenu /\ InitAccordion /\ InitConsumers /\ InitFormIdle

Next ==
    \/ MenuClickTrigger
    \/ \E inside \in BOOLEAN : MenuMouseDown(inside)
    \/ \E key \in MenuKeys : MenuKeyDown(key)
    \/ \E i \in DOMAIN menuItems : MenuItemClick(i)
    \/ \E item \in ItemIds : AccordionClickTrigger(item)
    \/ \E c \in Consumers, inside \in BOOLEAN : RenderConsumer(c, inside)

Spec == Init /\ [][Next]_vars

\* One Toast inside a ToastProvider.
InitSpecToast ==
    InitToast /\ InitListIdle /\ InitSelectIdle /\ InitPageIdle /\ InitFormIdle

SpecToast == InitSpecToast /\ [][NextToast]_vars

\* Timers are run by the browser's event loop and the clock advances.
FairSpecToast ==
    /\ SpecToast
    /\ WF_vars(Tick)
    /\ WF_vars(IntervalFire)
    /\ WF_vars(TimeoutFire)

\* The useToast list and the ToastContainer of a ToastProvider.
InitSpecToasts ==
    InitToastIdle /\ InitList /\ InitSelectIdle /\ InitPageIdle /\ InitFormIdle

SpecToasts == InitSpecToasts /\ [][NextToasts]_vars

\* One Select.
InitSpecSelect ==
    InitToastIdle /\ InitListIdle /\ InitSelect /\ InitPageIdle /\ InitFormIdle

SpecSelect == InitSpecSelect /\ [][NextSelect]_vars

\* One ThemeProvider: any props, any earlier localStorage entry, any system preference.
InitSpecTheme ==
    /\ storage \in {NoItem} \cup Themes
    /\ systemDark \in BOOLEAN
    /\ thProps \in ThemeProps
    /\ theme = InitialTheme(storage, thProps, systemDark)
    /\ resolvedTheme = Resolve(theme, systemDark)
    /\ docTheme = ForcedOr(thProps.forcedTheme, resolvedTheme)
    /\ persisted = FALSE
    /\ thLast = [h |-> "mount", n |-> 0]
    /\ InitModalIdle /\ InitSliderIdle /\ InitPaginationIdle /\ InitCheckboxIdle
    /\ InitTabsIdle
    /\ InitToastIdle /\ InitListIdle /\ InitSelectIdle /\ InitPageIdle

SpecTheme == InitSpecTheme /\ [][NextTheme]_vars

\* One Modal, rendered by its parent with any props.
InitSpecModal ==
    /\ mdProps \in ModalProps
    /\ mdListening = EscapeListening(mdProps)
    /\ mdLast = [h |-> "render", key |-> "", target |-> "", calls |-> 0, n |-> 0]
    /\ mdOther = "unmounted"
    /\ bodyOverflow = ScrollEffect("", FALSE, mdProps.isOpen)
    /\ InitThemeIdle /\ InitSliderIdle /\ InitPaginationIdle /\ InitCheckboxIdle
    /\ InitTabsIdle
    /\ InitToastIdle /\ InitListIdle /\ InitSelectIdle /\ InitPageIdle

SpecModal == InitSpecModal /\ [][NextModal]_vars

\* One Slider whose initial value (value ?? min) lies in [min, max].
InitSpecSlider ==
    /\ \E r \in SliderRanges, d \in BOOLEAN :
          slProps = [min |-> r.min, max |-> r.max, step |-> r.step, disabled |-> d]
    /\ internalValue \in slProps.min..slProps.max
    /\ isDragging = FALSE
    /\ slLast = [h |-> "mount", key |-> "", called |-> FALSE, arg |-> 0, n |-> 0]
    /\ InitThemeIdle /\ InitModalIdle /\ InitPaginationIdle /\ InitCheckboxIdle
    /\ InitTabsIdle
    /\ InitToastIdle /\ InitListIdle /\ InitSelectIdle /\ InitPageIdle

SpecSlider == InitSpecSlider /\ [][NextSlider]_vars

\* One Pagination with any totalPages and any currentPage.
InitSpecPagination ==
    /\ totalPages \in 0..MaxPages
    /\ currentPage \in 0..(MaxPages + 1)
    /\ pages = getPageNumbers(currentPage, totalPages)
    /\ InitThemeIdle /\ InitModalIdle /\ InitSliderIdle /\ InitCheckboxIdle
    /\ InitTabsIdle
    /\ InitToastIdle /\ InitListIdle /\ InitSelectIdle /\ InitPageIdle

SpecPagination == InitSpecPagination /\ [][NextPagination]_vars

\* One uncontrolled CheckboxGroup.
InitSpecCheckboxGroup ==
    /\ uncontrolledValue \in DefaultValues
    /\ cgProps \in [disabled : BOOLEAN, onChange : BOOLEAN]
    /\ cgLast = [value |-> "", checked |-> FALSE, called |-> FALSE, arg |-> <<>>,
                 prev |-> <<>>, n |-> 0]
    /\ InitThemeIdle /\ InitModalIdle /\ InitSliderIdle /\ InitPaginationIdle
    /\ InitTabsIdle
    /\ InitToastIdle /\ InitListIdle /\ InitSelectIdle /\ InitPageIdle

SpecCheckboxGroup == InitSpecCheckboxGroup /\ [][NextCheckboxGroup]_vars

\* One Tabs with three triggers and three panels, and its parent.
InitSpecTabs ==
    /\ controlledValue \in {TabValues[k] : k \in DOMAIN TabValues} \cup {Undefined}
    /\ tabsUncontrolledValue \in {TabValues[k] : k \in DOMAIN TabValues} \cup {Undefined}
    /\ tbProps \in [disabled : SUBSET (0..(Len(TabValues) - 1)), onValueChange : BOOLEAN]
    /\ tbFocus = -1
    /\ tbLast = [h |-> "", key |-> "", from |-> -1, index |-> -1,
                 called |-> FALSE, arg |-> "", n |-> 0]
    /\ InitThemeIdle /\ InitModalIdle /\ InitSliderIdle /\ InitPaginationIdle
    /\ InitCheckboxIdle
    /\ InitToastIdle /\ InitListIdle /\ InitSelectIdle /\ InitPageIdle

SpecTabs == InitSpecTabs /\ [][NextTabs]_vars

(***************************************************************************)
(*                               Properties                                *)
(***************************************************************************)

\* The toast is mounted with a running timer whose expiry and exit delay fit in
\* the modelled time, or its dismissal has started and fits.
ToastPending ==
    /\ tMounted
    /\ duration > 0
    /\ ~hovered
    /\ \/ interval.active /\ interval.endTime + IntervalMs + ExitDelayMs <= MaxTime
       \/ timeouts # <<>> /\ Head(timeouts).at <= MaxTime

\* C1: a mounted Toast with duration > 0 that is not hovered eventually has
\* onDismiss invoked with its id (or is hovered first); a dismissal started by the
\* timer starts once the duration has elapsed (within one interval period) and
\* calls onDismiss exactly 300 ms later.
C1_AutoDismiss ==
    /\ [](\A i \in DOMAIN onDismissCalls :
            onDismissCalls[i].cause = "timer" =>
                /\ onDismissCalls[i].id = ToastId
                /\ onDismissCalls[i].ranFor >= duration
                /\ onDismissCalls[i].ranFor < duration + IntervalMs
                /\ onDismissCalls[i].at = onDismissCalls[i].startedAt + ExitDelayMs)
    /\ (ToastPending ~> (hovered \/ onDismissCalls # <<>>))

\* Witness of C1: the timer alone dismissed a toast (no click, no pause pending).
C1_Witness ==
    /\ onDismissCalls # <<>>
    /\ onDismissCalls[1].cause = "timer"
    /\ onDismissCalls[1].mounted
    /\ clicks = 0
    /\ duration = 120

\* C2: onDismiss(id) is never invoked as a consequence of the duration timer while
\* the pointer is over the toast.
C2_NoTimerDismissWhileHovered ==
    \A i \in DOMAIN onDismissCalls :
        ~(onDismissCalls[i].cause = "timer" /\ onDismissCalls[i].hovered)

\* C3: rendering a Radio with no enclosing RadioGroup throws.
C3_RadioOutsideGroupThrows ==
    (rLast.consumer = "Radio" /\ ~rLast.inside) => rLast.threw

\* C4: useToastContext and useTheme throw outside their provider and return the
\* provider's context value, without throwing, inside it.
C4_HooksNeedProvider ==
    rLast.consumer \in {"useToastContext", "useTheme"} =>
        IF rLast.inside
        THEN ~rLast.threw /\ rLast.value = ProviderValue(rLast.consumer)
        ELSE rLast.threw

\* Witness of C4: useToastContext was called outside a ToastProvider and threw.
C4_Witness ==
    rLast.consumer = "useToastContext" /\ ~rLast.inside /\ rLast.threw

\* C5: in a Select without onChange and onSearch no handler raises an error;
\* selecting an option closes the dropdown and empties the search term, clearing
\* empties the search term, typing sets the search term and resets the highlight.
C5_AbsentCallbacksAreNoOps ==
    (~sProps.onChange /\ ~sProps.onSearch) =>
        /\ ~sThrew
        /\ sLast.onChange = NoCall /\ sLast.onSearch = NoCall
        /\ sLast.h = "select" => (~sIsOpen /\ searchTerm = <<>>)
        /\ sLast.h = "clear" => searchTerm = <<>>
        /\ sLast.h = "search" => (searchTerm = sLast.term /\ highlightedIndex = -1)

\* Witness of C5: an option was selected by a click in a searchable Select that has
\* neither callback.
C5_Witness ==
    /\ ~sProps.onChange /\ ~sProps.onSearch /\ sProps.searchable
    /\ sLast.h = "select" /\ sLast.wasOpen

\* C6: a click on an Accordion.Trigger toggles the open state of its item, for
\* items composed by hand and for items of Accordion.Simple.
C6_TriggerToggles ==
    [][aLast'.n # aLast.n =>
         ((aLast'.item \in openItems') # (aLast'.item \in openItems))]_vars

\* C7: Escape and a mouse press outside the menu element close an open Menu, a
\* mouse press inside it does not, and Menu.Content is rendered exactly while
\* isOpen.
C7_MenuCloses ==
    [][/\ (mIsOpen /\ mLast'.n # mLast.n /\ mLast'.h = "keydown" /\ mLast'.key = "Escape")
            => (~mIsOpen' /\ ~ContentRendered')
       /\ (mIsOpen /\ mLast'.n # mLast.n /\ mLast'.h = "mousedown" /\ ~mLast'.inside)
            => (~mIsOpen' /\ ~ContentRendered')
       /\ (mLast'.n # mLast.n /\ mLast'.h = "mousedown" /\ mLast'.inside)
            => (mIsOpen' = mIsOpen)
       /\ (ContentRendered <=> mIsOpen)
       /\ (ContentRendered' <=> mIsOpen')]_vars

\* Witness of C7: Escape was pressed while the menu was open, and it closed.
C7_Witness ==
    mLast.h = "keydown" /\ mLast.key = "Escape" /\ mLast.wasOpen /\ ~mIsOpen

\* C8: a mouse press outside the container, Escape and Tab each close an open
\* Select and empty the search term; a mouse press inside the container changes
\* neither through the outside-click handler.
C8_SelectCloses ==
    [][/\ (sIsOpen /\ sLast'.n # sLast.n
             /\ \/ sLast'.h = "mousedownOutside"
                \/ sLast'.h = "keydown" /\ sLast'.key \in {"Escape", "Tab"})
            => (~sIsOpen' /\ searchTerm' = <<>>)
       /\ (sLast'.n # sLast.n /\ sLast'.h = "mousedownInside")
            => (sIsOpen' = sIsOpen /\ searchTerm' = searchTerm)]_vars

\* Witness of C8: Tab was pressed while the dropdown was open with a search term
\* typed; the dropdown is closed and the term empty.
C8_Witness ==
    /\ sLast.h = "keydown" /\ sLast.key = "Tab" /\ sLast.wasOpen
    /\ ~sIsOpen /\ searchTerm = <<>>

\* C9: keyboard navigation of the Select.  Closed: Enter, Space and ArrowDown open
\* it, no other key does, nothing else changes.  Open: ArrowDown moves the
\* highlight one down and stays on the last filtered option; ArrowUp moves it one up
\* and from 0 (or none) to none; Enter with a highlighted option calls onChange with
\* that option's value and closes; Enter with no highlight changes nothing.
C9_KeyboardNavigation ==
    [][(sLast'.n # sLast.n /\ sLast'.h = "keydown") =>
         LET key == sLast'.key
             last == Len(filteredOptions) - 1
         IN  IF ~sIsOpen
             THEN /\ sIsOpen' = (key \in {"Enter", " ", "ArrowDown"})
                  /\ sLast'.onChange = NoCall
                  /\ UNCHANGED <<searchTerm, highlightedIndex, sValue>>
             ELSE /\ highlightedIndex <= last
                  /\ key = "ArrowDown" =>
                        /\ highlightedIndex' =
                             (IF highlightedIndex = last THEN last
                              ELSE highlightedIndex + 1)
                        /\ sIsOpen'
                  /\ key = "ArrowUp" =>
                        /\ highlightedIndex' =
                             (IF highlightedIndex <= 0 THEN -1 ELSE highlightedIndex - 1)
                        /\ sIsOpen'
                  /\ (key = "Enter" /\ highlightedIndex >= 0) =>
                        /\ ~sIsOpen'
                        /\ sProps.onChange =>
                             sLast'.onChange = filteredOptions[highlightedIndex + 1].value
                  /\ (key = "Enter" /\ highlightedIndex = -1) =>
                        /\ sLast'.onChange = NoCall
                        /\ UNCHANGED <<sIsOpen, searchTerm, highlightedIndex, sValue>>]_vars

\* Witness of C9: Enter selected the highlighted second option from the keyboard.
C9_Witness ==
    /\ sLast.h = "keydown" /\ sLast.key = "Enter" /\ sLast.wasOpen
    /\ sLast.onChange = "v2" /\ ~sIsOpen /\ highlightedIndex = 1

\* C10: ToastContainer renders at most maxToasts toasts, exactly the first
\* maxToasts entries of the list, and these were shown after every toast of the
\* list that is not rendered.
C10_VisibleToasts ==
    /\ Len(visibleToasts) <= maxToasts
    /\ visibleToasts = SubSeq(toastsRef, 1, Min(maxToasts, Len(toastsRef)))
    /\ \A i \in DOMAIN toastsRef :
         \A j \in DOMAIN toastsRef :
            (i <= Len(visibleToasts) /\ j > Len(visibleToasts))
                => toastsRef[i].ord > toastsRef[j].ord

\* Witness of C10: the list holds more toasts than the container renders.
C10_Witness ==
    /\ Len(toastsRef) > maxToasts
    /\ Len(visibleToasts) = maxToasts
    /\ maxToasts = 1
    /\ toastsRef[1].ord = 2

\* No two toasts of the list were created with the same generated id.
GeneratedDistinct ==
    \A i \in DOMAIN toasts : \A j \in DOMAIN toasts :
        i # j => toasts[i].gen # toasts[j].gen

\* C11: after any sequence of showToast, dismissToast, dismissAll and updateToast
\* calls the toasts of the list have pairwise distinct ids (stated for the runs in
\* which generateId never returned the same string twice).
C11_DistinctIds ==
    GeneratedDistinct =>
        \A i \in DOMAIN toasts : \A j \in DOMAIN toasts :
            i # j => toasts[i].id # toasts[j].id

\* The toasts of prev whose id differs from id, in their order, are exactly next.
OthersUnchanged(prev, next, id) ==
    LET keep == {i \in DOMAIN prev : prev[i].id # id}
    IN  /\ Len(next) = Cardinality(keep)
        /\ \A i \in keep : next[Cardinality({j \in keep : j <= i})] = prev[i]

C13_HasToastTracksList ==
    \A id \in ToastIds :
        hasToast(id) <=> (\E i \in DOMAIN toasts : toasts[i].id = id)

\* C14: once setTheme or toggleTheme has been called, localStorage[storageKey]
\* equals the provider's current theme, and a ThemeProvider mounted afterwards
\* with the same storageKey (whatever its other props and the system preference)
\* starts with the theme the provider had, which is the stored one.
C14_ThemePersists ==
    [][/\ thLast'.h \in {"setTheme", "toggleTheme"} => persisted'
       /\ persisted' => storage' = theme'
       /\ (thLast'.h = "mount" /\ persisted) =>
             (theme' = storage /\ theme' = theme /\ storage' = storage)]_vars

\* Witness of C14: a provider with defaultTheme 'dark' on a system that prefers
\* dark was mounted after 'light' had been stored, and starts with 'light'.
C14_Witness ==
    /\ thLast.h = "mount" /\ persisted
    /\ theme = "light" /\ storage = "light"
    /\ systemDark /\ thProps.defaultTheme = "dark" /\ thProps.enableSystem

\* 'dark' becomes 'light', anything else becomes 'dark'.
Opposite(t) == IF t = "dark" THEN "light" ELSE "dark"

\* C15: after each toggleTheme call the resolvedTheme of the theme context, and
\* the theme applied to the document root, is the opposite of the context's
\* resolvedTheme before the call, for every provider configuration.
C15_ToggleFlips ==
    [][thLast'.h = "toggleTheme" =>
          /\ ContextResolvedTheme' = Opposite(ContextResolvedTheme)
          /\ docTheme' = ContextResolvedTheme']_vars

C17_SingleAtMostOne ==
    aProps.type = "single" => Cardinality(openItems) <= 1

\* C18: on an enabled Slider whose initial value lies in [min, max] every event
\* leaves the value in [min, max] and passes onChange a value in [min, max] (the
\* new value); Home yields min and End yields max; on a disabled Slider no event
\* changes the value or calls onChange.
C18_SliderInRange ==
    [][/\ internalValue' \in slProps.min..slProps.max
       /\ slLast'.called =>
             (slLast'.arg \in slProps.min..slProps.max /\ slLast'.arg = internalValue')
       /\ (~slProps.disabled /\ slLast'.h = "keydown" /\ slLast'.key = "Home") =>
             (internalValue' = slProps.min /\ slLast'.called)
       /\ (~slProps.disabled /\ slLast'.h = "keydown" /\ slLast'.key = "End") =>
             (internalValue' = slProps.max /\ slLast'.called)
       /\ slProps.disabled => (internalValue' = internalValue /\ ~slLast'.called)]_vars

\* Witness of C18: a drag past the right end of the track of the slider with
\* min 1, max 10, step 4 left the value at max, which is no multiple of the step.
C18_Witness ==
    /\ slLast.h = "mousemove" /\ slLast.called /\ slLast.arg = 10
    /\ slProps.step = 4 /\ internalValue = 10 /\ isDragging

\* The entries of the page list that are page numbers, in their order.
PageNumbers == SelectSeq(pages, LAMBDA e : ~e.ellipsis)

\* C19: for totalPages <= 5 the page list is exactly 1..totalPages with no
\* ellipsis; for larger totalPages and any currentPage it starts with page 1, ends
\* with totalPages, contains currentPage when 1 <= currentPage <= totalPages, lists
\* its page numbers in strictly increasing order, and has an ellipsis only between
\* two listed pages that are not consecutive.
C19_PageWindow ==
    /\ totalPages <= 5 => pages = [i \in 1..totalPages |-> Page(i)]
    /\ totalPages > 5 =>
          /\ pages[1] = Page(1)
          /\ pages[Len(pages)] = Page(totalPages)
          /\ (1 <= currentPage /\ currentPage <= totalPages) =>
                \E i \in DOMAIN pages : pages[i] = Page(currentPage)
          /\ \A i \in DOMAIN PageNumbers : \A j \in DOMAIN PageNumbers :
                i < j => PageNumbers[i].n < PageNumbers[j].n
          /\ \A i \in DOMAIN pages :
                pages[i].ellipsis =>
                    /\ 1 < i /\ i < Len(pages)
                    /\ ~pages[i - 1].ellipsis /\ ~pages[i + 1].ellipsis
                    /\ pages[i + 1].n > pages[i - 1].n + 1

\* Witness of C19: the middle window, with an ellipsis on both sides of it.
C19_Witness ==
    /\ totalPages = 9 /\ currentPage = 5
    /\ pages = <<Page(1), Ellipsis, Page(4), Page(5), Page(6), Ellipsis, Page(9)>>

\* The values of a selection, and the selection without one value.
ValuesOf(selection) == {selection[i] : i \in DOMAIN selection}
Without(selection, value) == SelectSeq(selection, LAMBDA v : v # value)

\* C20: in an uncontrolled CheckboxGroup a change of the checkbox with value v
\* adds v to the selection when it checks the box and removes it when it unchecks
\* it, leaves the other selected values as they were, and passes the new selection
\* to onChange; the box is then checked exactly when v is in the selection; and
\* unchecking v right after checking it restores the selection before the two.
C20_CheckboxGroupSelection ==
    [][LET v == cgLast'.value
       IN  /\ cgLast'.checked = ~isChecked(uncontrolledValue, v)
           /\ cgLast'.checked => ValuesOf(uncontrolledValue') = ValuesOf(uncontrolledValue) \cup {v}
           /\ ~cgLast'.checked => ValuesOf(uncontrolledValue') = ValuesOf(uncontrolledValue) \ {v}
           /\ Without(uncontrolledValue', v) = Without(uncontrolledValue, v)
           /\ cgProps.onChange => (cgLast'.called /\ cgLast'.arg = uncontrolledValue')
           /\ \A w \in CheckboxValues :
                 isChecked(uncontrolledValue', w) <=> w \in ValuesOf(uncontrolledValue')
           /\ isChecked(uncontrolledValue', v) = cgLast'.checked
           /\ (~cgLast'.checked /\ cgLast.checked /\ cgLast.value = v) =>
                 uncontrolledValue' = cgLast.prev]_vars

\* Witness of C20: 'business' was checked and unchecked again in a group that
\* started with 'tech' and 'design' selected, and onChange received the selection.
C20_Witness ==
    /\ cgLast.value = "business" /\ ~cgLast.checked
    /\ cgLast.prev = <<"tech", "design", "business">>
    /\ uncontrolledValue = <<"tech", "design">>
    /\ cgLast.called /\ cgLast.arg = <<"tech", "design">>

\* C21: the progress value of a Toast (the percentage of the duration still
\* remaining) never increases, also across a hover and the mouse leave after it.
C21_ProgressNeverIncreases ==
    [][progress' <= progress]_vars

\* C22: document.body.style.overflow is 'hidden' whenever at least one mounted
\* Modal has isOpen true, and '' when none has, also with two Modal instances
\* that open, close and unmount in any order.
C22_BodyScrollLocked ==
    bodyOverflow = (IF mdProps.isOpen \/ mdOther = "open" THEN "hidden" ELSE "")

\* The trigger the last event of the tabs activated: the index it clicked
\* (by the pointer or by the keyboard) when that trigger is not disabled.
Activated(last) ==
    last.h \in {"click", "keydown"} /\ last.index # -1
    /\ last.index \notin tbProps.disabled

\* C23: Tabs controlled and uncontrolled modes.  While the value prop is
\* defined the active tab is that prop, and activating a trigger changes
\* neither the prop nor the internal state and only calls onValueChange with
\* the trigger's value; while it is undefined, activating a trigger that is not
\* disabled (by a click, or by ArrowRight/ArrowDown/ArrowLeft/ArrowUp/Home/End,
\* which wrap around at both ends) makes its value the active tab and calls
\* onValueChange; a click or a key that lands on a disabled trigger changes
\* nothing and calls nothing; and the panels rendered are exactly the
\* Tabs.Content whose value is the active tab.
C23_TabsModes ==
    [][ LET last == tbLast'
            before == activeTab(controlledValue, tabsUncontrolledValue)
            after == activeTab(controlledValue', tabsUncontrolledValue')
            length == Len(TabValues)
        IN  /\ controlledValue' # Undefined => after = controlledValue'
            /\ \A k \in DOMAIN TabValues :
                   TabValues[k] \in TabsContent(after) <=> TabValues[k] = after
            /\ last.h = "keydown" =>
                   /\ last.key \in {"ArrowRight", "ArrowDown"} =>
                          last.index = (last.from + 1) % length
                   /\ last.key \in {"ArrowLeft", "ArrowUp"} =>
                          last.index = (last.from + length - 1) % length
                   /\ last.key = "Home" => last.index = 0
                   /\ last.key = "End" => last.index = length - 1
                   /\ last.key = "a" => last.index = -1
            /\ last.h \in {"click", "keydown"} =>
                   /\ controlledValue' = controlledValue
                   /\ controlledValue # Undefined =>
                          tabsUncontrolledValue' = tabsUncontrolledValue
                   /\ IF Activated(last)
                      THEN /\ controlledValue = Undefined =>
                                  after = TabValues[last.index + 1]
                           /\ last.called = tbProps.onValueChange
                           /\ last.called => last.arg = TabValues[last.index + 1]
                      ELSE /\ after = before
                           /\ tabsUncontrolledValue' = tabsUncontrolledValue
                           /\ ~last.called
      ]_vars

\* An uncontrolled Tabs whose second trigger is disabled: ArrowRight on the
\* last trigger wrapped around to the first one, which became the active tab
\* and was reported to onValueChange.
C23_Witness ==
    /\ tbLast.h = "keydown" /\ tbLast.key = "ArrowRight"
    /\ tbLast.from = Len(TabValues) - 1 /\ tbLast.index = 0
    /\ controlledValue = Undefined
    /\ tbProps.disabled = {1}
    /\ activeTab(controlledValue, tabsUncontrolledValue) = TabValues[1]
    /\ tbLast.called /\ tbLast.arg = TabValues[1]

\* C24: onDismiss(id) is invoked at most once for a Toast, whatever the
\* interleaving of close-button clicks, timer expiry, hovers and the unmount.
C24_OnDismissAtMostOnce ==
    Len(onDismissCalls) <= 1

====
